---- MODULE Spec2Model ----
(***************************************************************************)
(* A model of PDFConverterApp (src/kokoro_converter.py): the conversion    *)
(* queue, the run controls (Start / Pause / Stop), the process_queue       *)
(* worker thread, the files it writes and the settings file.               *)
(*                                                                         *)
(* Strings that the program takes apart (folder names, file names, output  *)
(* names) are sequences of tokens; a token is one character, or a run of   *)
(* characters the program never splits ("pdf", "temp", "mp3").             *)
(***************************************************************************)
EXTENDS Integers, Sequences, FiniteSets, TLC

\* ------------------------------------------------------------------ bounds
MaxQueue == 3       \* find_pdfs is not offered on a queue this long
MaxWorkers == 2     \* process_queue threads that may be alive at once
MaxAfter == 2       \* root.after(0, stop_conversion) callbacks waiting
MaxTimers == 2      \* root.after(400, save_settings) callbacks counted
MaxGen == 2         \* generate_speech threads that may be alive at once
MaxSegments == 2    \* segments the pipeline yields for the text at most

\* ------------------------------------------------------- the source files
\* The PDF folder tree the user can point find_pdfs at.
\*   /x/d/a.pdf   /x/d/b.pdf   /x/d/n.txt   /x/d !/a.PDF
DirD == << <<"x">>, <<"d">> >>
DirE == << <<"x">>, <<"d", " ", "!">> >>
P1 == [dir |-> DirD, file |-> <<"a", ".", "pdf">>]
P2 == [dir |-> DirE, file |-> <<"a", ".", "PDF">>]
P3 == [dir |-> DirD, file |-> <<"b", ".", "pdf">>]
PT == [dir |-> DirD, file |-> <<"n", ".", "txt">>]
Paths == {P1, P2, P3}

\* What os.walk yields for each directory the dialog can return, in listing
\* order; <<>> is the cancelled dialog (find_pdfs line 294).
Walks == { <<>>, <<P1, P3, PT>>, <<P3, PT, P1>>, <<P2>>,
           <<P1, P3, PT, P2>>, <<P2, PT, P3, P1>> }

\* ------------------------------------------------------------ string helpers
Alnum == {"a", "b", "d", "n", "x", "pdf", "PDF", "txt", "temp", "mp3"}

Lower(tok) == IF tok = "PDF" THEN "pdf" ELSE tok

\* file.lower().endswith(".pdf")
IsPdf(file) ==
    /\ Len(file) >= 2
    /\ file[Len(file) - 1] = "."
    /\ Lower(file[Len(file)]) = "pdf"

RECURSIVE LastDot(_, _)
LastDot(s, k) == IF k = 0 THEN 0 ELSE IF s[k] = "." THEN k ELSE LastDot(s, k - 1)

\* os.path.splitext(name)[0]: the name up to its last dot; a leading dot
\* starts no extension.
SplitextStem(file) ==
    LET k == LastDot(file, Len(file))
    IN  IF k <= 1 THEN file ELSE SubSeq(file, 1, k - 1)

\* os.path.basename(os.path.dirname(path))
FolderName(p) == IF Len(p.dir) = 0 THEN <<>> ELSE p.dir[Len(p.dir)]

\* "".join(c for c in folder_name if c.isalnum() or c in (' ', '_'))
KeepSafe(s) == SelectSeq(s, LAMBDA c : c \in Alnum \/ c \in {" ", "_"})

RECURSIVE Rstrip(_)
Rstrip(s) ==
    IF Len(s) > 0 /\ s[Len(s)] = " " THEN Rstrip(SubSeq(s, 1, Len(s) - 1)) ELSE s

SafeFolderName(p) == Rstrip(KeepSafe(FolderName(p)))

BaseFilename(p) == SafeFolderName(p) \o <<"_">> \o SplitextStem(p.file)
TempOutputPath(p) == BaseFilename(p) \o <<"_", "temp", ".", "mp3">>
FinalOutputPath(p) == BaseFilename(p) \o <<".", "mp3">>

\* ------------------------------------------------------------------- state
VARIABLES
    pdf_queue,          \* self.pdf_queue: the job objects, as their identities
    jobs,               \* the job dicts: identity -> [status, path, filename]
    is_running,         \* self.is_running
    is_paused,          \* self.is_paused
    start_button,       \* state of the Start button
    pause_button,       \* state of the Pause button
    stop_button,        \* state of the Stop button
    tts_engine,         \* self.tts_engine: none, or the engine and whether its model is loaded
    loader,             \* the load_model_task thread and its pending callback
    selected_tts_model, \* self.selected_tts_model
    selected_voice,     \* self.selected_voice
    speaker_wav_path,   \* self.speaker_wav_path
    optimize_mp3,       \* self.optimize_mp3
    ffmpeg,             \* whether shutil.which("ffmpeg") finds the encoder now
    windows,            \* whether os.rename refuses an existing destination
    dest_before,        \* history: the destination folder when the program started
    destination_folder, \* self.destination_folder
    last_close,         \* history: how the last on_closing ended
    pause_held,         \* history: the threads kept waiting by Pause, no Resume since
    kokoro,             \* the KokoroTTSApp process (src/kokoro_tts_app.py) and its settings file
    gen,                \* KokoroTTSApp: generation flag, buttons, worker threads, callbacks, output
    threads,            \* the process_queue threads: their position and locals
    after_stop,         \* root.after(0, self.stop_conversion) callbacks not yet run
    files,              \* names of the files in the destination folder
    settings_file,      \* content of settings.json
    window,             \* "open", or "closed" once root.destroy() has run
    last_op,            \* history: the last queue handler, its inputs, the queue before
    stop_inflight,      \* history: the jobs in Processing at the last stop_conversion
    raised,             \* history: the jobs whose iteration raised since the last Start
    latest_thread,      \* history: the live thread of the last accepted Start (0: none)
    last_output         \* history: how lines 433-447 last ended

vars == << pdf_queue, jobs, is_running, is_paused, start_button, pause_button,
           stop_button, tts_engine, loader, selected_tts_model, selected_voice,
           speaker_wav_path, optimize_mp3, ffmpeg, windows, dest_before,
           destination_folder, last_close, pause_held, kokoro, gen, threads,
           after_stop, files,
           settings_file, window, last_op, stop_inflight, raised, latest_thread,
           last_output >>

queue_vars == << pdf_queue, jobs, last_op >>
flag_vars == << is_running, is_paused, stop_inflight >>
button_vars == << start_button, pause_button, stop_button >>
model_vars == << tts_engine, loader, selected_tts_model, selected_voice,
                 speaker_wav_path >>
encoder_vars == << optimize_mp3, ffmpeg, windows, dest_before >>
env_vars == << encoder_vars, destination_folder, last_close, pause_held, kokoro,
              gen >>
disk_vars == << files, settings_file, window >>
run_hist == << raised, last_output, latest_thread >>

JobIds == 1..(MaxQueue + MaxWorkers)
Workers == 1..MaxWorkers

PNone == [dir |-> <<>>, file |-> <<>>]
NoJob == [status |-> "Free", path |-> PNone, filename |-> <<>>]
NewJob(p) == [status |-> "Pending", path |-> p, filename |-> p.file]

NoThread == [pc |-> "none", i |-> 0, item |-> 0, temp |-> <<>>]
NoOp == [op |-> "none", index |-> 0, direction |-> 0, before |-> <<>>, walk |-> <<>>]

Range(s) == {s[k] : k \in 1..Len(s)}
QueuePaths(q, js) == [k \in 1..Len(q) |-> js[q[k]].path]

\* The queue as json.dump writes it (the identity is not written: it stands
\* for the position the job is read back at).
Snapshot(q, js) ==
    [k \in 1..Len(q) |-> [id |-> q[k], status |-> js[q[k]].status,
                          path |-> js[q[k]].path, filename |-> js[q[k]].filename]]

\* A thread holds a job while it is inside that job's iteration.
Held(ths) == {ths[w].item : w \in Workers} \ {0}

\* Job dicts nothing refers to any more are collected.
Collect(q, js, ths) ==
    [j \in JobIds |-> IF j \in Range(q) \/ j \in Held(ths) THEN js[j] ELSE NoJob]

\* ------------------------------------------------------------- queue handlers
\* find_pdfs without the membership test of line 300.
RECURSIVE NewPdfsUnchecked(_, _, _)
NewPdfsUnchecked(walk, k, have) ==
    IF k > Len(walk) THEN <<>>
    ELSE IF IsPdf(walk[k].file)
         THEN <<walk[k]>> \o NewPdfsUnchecked(walk, k + 1, have)
         ELSE NewPdfsUnchecked(walk, k + 1, have)

\* find_pdfs, lines 296-302: the paths the walk appends, in order.
RECURSIVE NewPdfs(_, _, _)
NewPdfs(walk, k, have) ==
    IF k > Len(walk) THEN <<>>
    ELSE IF IsPdf(walk[k].file) /\ walk[k] \notin have
         THEN <<walk[k]>> \o NewPdfs(walk, k + 1, have \cup {walk[k]})
         ELSE NewPdfs(walk, k + 1, have)

\* The k lowest identities not in use.
RECURSIVE FreshIds(_, _)
FreshIds(free, k) ==
    IF k = 0 THEN <<>>
    ELSE LET j == CHOOSE x \in free : \A y \in free : x <= y
         IN  <<j>> \o FreshIds(free \ {j}, k - 1)

find_pdfs(walk) ==
    LET added == NewPdfs(walk, 1, Range(QueuePaths(pdf_queue, jobs)))
        free == {j \in JobIds : jobs[j].status = "Free"}
        ids == FreshIds(free, Len(added))
    IN  /\ window = "open"
        /\ Len(pdf_queue) + Len(added) <= MaxQueue
        /\ Len(added) <= Cardinality(free)
        /\ pdf_queue' = pdf_queue \o ids
        /\ jobs' = [j \in JobIds |->
                      IF \E k \in 1..Len(ids) : ids[k] = j
                      THEN NewJob(added[CHOOSE k \in 1..Len(ids) : ids[k] = j])
                      ELSE jobs[j]]
        /\ last_op' = [NoOp EXCEPT !.op = "find_pdfs", !.before = Snapshot(pdf_queue, jobs),
                                   !.walk = walk]
        /\ UNCHANGED << run_hist, flag_vars, button_vars, model_vars, env_vars, threads,
                        after_stop, disk_vars >>

\* list.pop(index) and list.insert(new_index, x), on 1-based positions.
ListPop(q, index) == SubSeq(q, 1, index - 1) \o SubSeq(q, index + 1, Len(q))
\* list.insert one position too far.
ListInsertAfter(q, new_index, x) ==
    LET at == IF new_index + 1 > Len(q) + 1 THEN Len(q) + 1 ELSE new_index + 1
    IN  SubSeq(q, 1, at - 1) \o <<x>> \o SubSeq(q, at, Len(q))
ListInsert(q, new_index, x) ==
    LET at == IF new_index > Len(q) + 1 THEN Len(q) + 1 ELSE new_index
    IN  SubSeq(q, 1, at - 1) \o <<x>> \o SubSeq(q, at, Len(q))

\* index: the focused row of the tree (0: none); direction: -1 Up, +1 Down.
move_item(index, direction) ==
    LET new_index == index + direction
    IN  /\ window = "open"
        /\ pdf_queue' =
             IF index # 0 /\ 1 <= new_index /\ new_index <= Len(pdf_queue)
             THEN ListInsert(ListPop(pdf_queue, index), new_index, pdf_queue[index])
             ELSE pdf_queue
        /\ last_op' = [NoOp EXCEPT !.op = "move_item", !.before = Snapshot(pdf_queue, jobs),
                                   !.index = index, !.direction = direction]
        /\ UNCHANGED << run_hist, jobs, flag_vars, button_vars, model_vars, env_vars,
                        threads, after_stop, disk_vars >>

\* del self.pdf_queue[index] for the selected rows, highest first.
RECURSIVE DeleteRows(_, _)
DeleteRows(q, rows) ==
    IF rows = {} THEN q
    ELSE LET top == CHOOSE r \in rows : \A o \in rows : o <= r
         IN  DeleteRows(ListPop(q, top), rows \ {top})

delete_selected_pdfs(rows, confirmed) ==
    /\ window = "open"
    /\ pdf_queue' = IF rows # {} /\ confirmed THEN DeleteRows(pdf_queue, rows)
                    ELSE pdf_queue
    /\ jobs' = Collect(pdf_queue', jobs, threads)
    /\ last_op' = [NoOp EXCEPT !.op = "delete_selected_pdfs", !.before = Snapshot(pdf_queue, jobs)]
    /\ UNCHANGED << run_hist, flag_vars, button_vars, model_vars, env_vars, threads,
                    after_stop, disk_vars >>

\* ------------------------------------------------------------ KokoroTTSApp
\* The second program.  Its option fields are the record fields
\* selected_voice, speed (in tenths), output_format, output_path, text_input
\* (the text widget without its final newline), console_visible and
\* log_level_filter.
KOKORO_VOICES == {"af_bella", "af_sarah"}
LOG_LEVELS == {"ALL", "INFO"}
KokoroOptions == {"selected_voice", "speed", "output_format", "output_path",
                  "text_input", "console_visible", "log_level_filter"}

\* Paths are sequences of components; "/" is a trailing separator.
Downloads == <<"Downloads">>
ExistingDirs == {Downloads, <<"D">>, <<".">>}

\* str(Path(p))
RECURSIVE PathStr(_)
PathStr(path) ==
    IF path = <<>> THEN <<".">>
    ELSE IF path[Len(path)] = "/" THEN PathStr(SubSeq(path, 1, Len(path) - 1))
    ELSE path

\* Path(p).parent
PathParent(path) ==
    LET q == PathStr(path)
    IN  IF Len(q) <= 1 THEN <<".">> ELSE SubSeq(q, 1, Len(q) - 1)

\* path.exists() or path.parent.exists()
PathUsable(path) == PathStr(path) \in ExistingDirs \/ PathParent(path) \in ExistingDirs

\* str.strip()
RECURSIVE Lstrip(_)
Lstrip(s) == IF Len(s) > 0 /\ s[1] = " " THEN Lstrip(SubSeq(s, 2, Len(s))) ELSE s
Strip(s) == Lstrip(Rstrip(s))

\* The fields as __init__ and setup_ui create them (lines 233-239, 464).
KokoroDefaults ==
    [selected_voice |-> "af_bella", speed |-> 10, output_format |-> "wav",
     output_path |-> Downloads, text_input |-> <<>>, console_visible |-> FALSE,
     log_level_filter |-> "INFO"]

\* The option fields of the app record a.
KokoroFields(a) == [k \in KokoroOptions |-> a[k]]

\* kokoro-settings.json: kind is "missing", "ok" (a JSON object with the
\* seven keys), "corrupt" (not JSON) or "list" (JSON, but a list).
KokoroNoFile ==
    [kind |-> "missing", voice |-> "", speed |-> 10, output_format |-> "",
     output_path |-> <<>>, text_input |-> <<>>, console_visible |-> FALSE,
     log_level_filter |-> ""]

\* What save_settings writes (lines 355-363): the text is stripped.
KokoroSaved(a) ==
    [kind |-> "ok", voice |-> a.selected_voice, speed |-> a.speed,
     output_format |-> a.output_format, output_path |-> a.output_path,
     text_input |-> Strip(a.text_input), console_visible |-> a.console_visible,
     log_level_filter |-> a.log_level_filter]

\* load_settings (lines 293-350) on a fresh instance: each field is set when
\* its test passes, and keeps its default otherwise.  A file that is not a
\* JSON object passes no test or raises into the handler of line 347.
KokoroLoaded(sf, has_ffmpeg) ==
    IF sf.kind # "ok" THEN KokoroDefaults
    ELSE [selected_voice |-> IF sf.voice \in KOKORO_VOICES THEN sf.voice
                             ELSE KokoroDefaults.selected_voice,
          speed |-> IF 5 <= sf.speed /\ sf.speed <= 20 THEN sf.speed
                    ELSE KokoroDefaults.speed,
          output_format |-> IF sf.output_format \in {"wav", "mp3"}
                            THEN IF sf.output_format = "mp3" /\ ~has_ffmpeg
                                 THEN "wav" ELSE sf.output_format
                            ELSE KokoroDefaults.output_format,
          output_path |-> IF PathUsable(sf.output_path) THEN PathStr(sf.output_path)
                          ELSE KokoroDefaults.output_path,
          text_input |-> sf.text_input,
          console_visible |-> sf.console_visible,
          log_level_filter |-> IF sf.log_level_filter \in LOG_LEVELS
                               THEN sf.log_level_filter
                               ELSE KokoroDefaults.log_level_filter]

\* KokoroTTSApp.__init__ (lines 218-262) on settings file sf: the fields
\* after load_settings; without the encoder the format is set to "wav" at
\* line 261, whose trace schedules a save.  timers: the number of save_settings
\* callbacks the event loop holds; save_timer: the handle names one of them;
\* has_saved, saved: history, the last save_settings of this process wrote
\* the file, and the option fields it had then.
KokoroApp(sf, has_ffmpeg) ==
    [k \in KokoroOptions \cup {"has_ffmpeg", "save_timer", "timers", "window",
                               "settings_file", "has_saved", "saved"} |->
        CASE k = "has_ffmpeg" -> has_ffmpeg
          [] k = "save_timer" -> ~has_ffmpeg
          [] k = "timers" -> IF has_ffmpeg THEN 0 ELSE 1
          [] k = "window" -> "open"
          [] k = "settings_file" -> sf
          [] k = "has_saved" -> FALSE
          [] k = "saved" -> KokoroDefaults
          [] k = "output_format" ->
                IF has_ffmpeg THEN KokoroLoaded(sf, has_ffmpeg).output_format ELSE "wav"
          [] OTHER -> KokoroLoaded(sf, has_ffmpeg)[k]]

\* A generate_speech thread: segs segments collected; observed: it has seen
\* is_processing false at line 820; output: the output file it wrote;
\* error: what the handler of line 872 caught.
GenThreads == 1..MaxGen
NoGenThread ==
    [pc |-> "none", segs |-> 0, observed |-> FALSE, output |-> <<>>, written |-> {},
     error |-> "none"]

\* The generation state after setup_ui (lines 232, 477-487, 224): after is
\* the queue of root.after(0, ..) callbacks; folder the files in the output
\* folder; last: history, the thread record of the generation that ended last.
GenIdle ==
    [is_processing |-> FALSE, generate_button |-> "normal", stop_button |-> "disabled",
     pipeline |-> FALSE, threads |-> [w \in GenThreads |-> NoGenThread],
     after |-> <<>>, folder |-> {}, last |-> NoGenThread]

\* The second program is not running.
KokoroOff == [KokoroApp(KokoroNoFile, TRUE) EXCEPT !.window = "closed"]

\* ------------------------------------------------------------ settings file
\* settings.json: kind is "missing" (no file), "ok" (a JSON object),
\* "corrupt" (not JSON), "list" (JSON, but a list) or "bad_queue" (a JSON
\* object whose pdf_queue is not a list of jobs); keys are the keys the
\* object has.
SettingsKeys == {"pdf_queue", "destination_folder", "selected_voice",
                 "speaker_wav_path", "selected_tts_model", "optimize_mp3"}

NoSettings == [kind |-> "missing", keys |-> {}, pdf_queue |-> <<>>,
               destination_folder |-> "", selected_voice |-> "",
               speaker_wav_path |-> "", selected_tts_model |-> "",
               optimize_mp3 |-> TRUE]

SavedJob(j, st, p) == [id |-> j, status |-> st, path |-> p, filename |-> p.file]

\* Files an earlier session of the program can have left behind.
SavedSettings(q) == [kind |-> "ok", keys |-> SettingsKeys, pdf_queue |-> q,
                     destination_folder |-> "Downloads", selected_voice |-> "v1",
                     speaker_wav_path |-> "", selected_tts_model |-> "VCTK",
                     optimize_mp3 |-> TRUE]

\* settings.get(key, default)
Get(sf, key, default) == IF key \in sf.keys THEN sf[key] ELSE default

\* The fields before load_settings: lines 91-100 and 107-110.
DefaultFields ==
    [pdf_queue |-> <<>>, destination_folder |-> "Downloads", selected_voice |-> "",
     speaker_wav_path |-> "", selected_tts_model |-> "", optimize_mp3 |-> TRUE]

\* load_settings: the fields as it leaves them for a settings file sf.  A
\* file that is not JSON is caught at line 473; one that is JSON is read
\* with the defaults of lines 467-472.
load_settings(sf) ==
    IF sf.kind \in {"ok", "bad_queue"}
    THEN [pdf_queue |-> Get(sf, "pdf_queue", <<>>),
          destination_folder |-> Get(sf, "destination_folder", "Downloads"),
          selected_voice |-> Get(sf, "selected_voice", ""),
          speaker_wav_path |-> Get(sf, "speaker_wav_path", ""),
          selected_tts_model |-> Get(sf, "selected_tts_model", "VCTK"),
          optimize_mp3 |-> Get(sf, "optimize_mp3", TRUE)]
    ELSE DefaultFields

\* Whether __init__ raises on sf: settings.get on a list (line 467), or
\* update_pdf_list over a queue that is no list of jobs (lines 319-320).
StartupRaises(sf) == sf.kind \in {"list", "bad_queue"}

LoadedQueue(items) == [k \in 1..Len(items) |-> items[k].id]
LoadedJobs(items) ==
    [j \in JobIds |->
        IF \E k \in 1..Len(items) : items[k].id = j
        THEN LET it == items[CHOOSE k \in 1..Len(items) : items[k].id = j]
             IN  [status |-> it.status, path |-> it.path, filename |-> it.filename]
        ELSE NoJob]

\* save_settings that writes the jobs without their statuses.
save_settings_no_status ==
    [kind |-> "ok", keys |-> SettingsKeys,
     pdf_queue |-> [k \in 1..Len(pdf_queue) |->
                      [Snapshot(pdf_queue, jobs)[k] EXCEPT !.status = "Pending"]],
     destination_folder |-> destination_folder,
     selected_voice |-> selected_voice, speaker_wav_path |-> speaker_wav_path,
     selected_tts_model |-> selected_tts_model, optimize_mp3 |-> optimize_mp3]

save_settings ==
    [kind |-> "ok", keys |-> SettingsKeys, pdf_queue |-> Snapshot(pdf_queue, jobs),
     destination_folder |-> destination_folder,
     selected_voice |-> selected_voice, speaker_wav_path |-> speaker_wav_path,
     selected_tts_model |-> selected_tts_model, optimize_mp3 |-> optimize_mp3]

\* A settings file whose writing failed half way.
TornSettings == [NoSettings EXCEPT !.kind = "corrupt"]

NoEngine == [key |-> "none", model |-> FALSE]

\* The voices a loaded model offers: the multi-speaker model lists speakers.
Speakers(key) == IF key = "VCTK" THEN {"v1", "v2"} ELSE {}

\* update_model_status, lines 265-276: the voice after a successful load.
VoiceAfterLoad(key, saved_voice) ==
    IF Speakers(key) # {}
    THEN IF saved_voice \in Speakers(key) THEN saved_voice ELSE "v1"
    ELSE ""

\* __init__ with settings file sf, encoder availability ff and destination
\* content fs: load_settings, setup_ui, check_ffmpeg.
Fresh(sf, ff, fs) ==
    LET s == load_settings(sf)
    IN  [pdf_queue |-> LoadedQueue(s.pdf_queue),
         jobs |-> LoadedJobs(s.pdf_queue),
         destination_folder |-> s.destination_folder,
         selected_tts_model |-> s.selected_tts_model,
         selected_voice |-> s.selected_voice,
         speaker_wav_path |-> s.speaker_wav_path,
         optimize_mp3 |-> (s.optimize_mp3 /\ ff),
         ffmpeg |-> ff, files |-> fs, settings_file |-> sf]

ConstructApp(sf, ff, win, fs, loaded) ==
    LET a == Fresh(sf, ff, fs)
    IN  /\ pdf_queue = a.pdf_queue
        /\ jobs = a.jobs
        /\ is_running = FALSE
        /\ is_paused = FALSE
        /\ start_button = (IF loaded THEN "normal" ELSE "disabled")
        /\ pause_button = "disabled"
        /\ stop_button = "disabled"
        /\ tts_engine = (IF loaded THEN [key |-> a.selected_tts_model, model |-> TRUE]
                         ELSE NoEngine)
        /\ loader = "idle"
        /\ selected_tts_model = a.selected_tts_model
        /\ selected_voice = (IF loaded THEN VoiceAfterLoad(a.selected_tts_model,
                                                            a.selected_voice)
                             ELSE a.selected_voice)
        /\ speaker_wav_path = a.speaker_wav_path
        /\ optimize_mp3 = a.optimize_mp3
        /\ ffmpeg = a.ffmpeg
        /\ windows = win
        /\ dest_before = a.files
        /\ destination_folder = a.destination_folder
        /\ last_close = "none"
        /\ pause_held = {}
        /\ threads = [w \in Workers |-> NoThread]
        /\ after_stop = 0
        /\ files = a.files
        /\ settings_file = a.settings_file
        /\ window = (IF StartupRaises(sf) THEN "crashed" ELSE "open")
        /\ last_op = NoOp
        /\ stop_inflight = {}
        /\ raised = {}
        /\ latest_thread = 0
        /\ last_output = "none"

\* ------------------------------------------------------------ model loading
threaded_load_model ==
    /\ window = "open"
    /\ loader = "idle"
    /\ selected_tts_model # ""
    /\ tts_engine' = [key |-> selected_tts_model, model |-> FALSE]
    /\ loader' = "loading"
    /\ UNCHANGED << run_hist, queue_vars, flag_vars, button_vars, selected_tts_model,
                    selected_voice, speaker_wav_path, env_vars, threads,
                    after_stop, disk_vars >>

load_model_task(ok) ==
    /\ window = "open"
    /\ loader = "loading"
    /\ tts_engine' = [tts_engine EXCEPT !.model = ok]
    /\ loader' = IF ok THEN "loaded" ELSE "failed"
    /\ UNCHANGED << run_hist, queue_vars, flag_vars, button_vars, selected_tts_model,
                    selected_voice, speaker_wav_path, env_vars, threads,
                    after_stop, disk_vars >>

update_model_status ==
    /\ window = "open"
    /\ loader \in {"loaded", "failed"}
    /\ loader' = "idle"
    /\ start_button' = IF loader = "loaded" THEN "normal" ELSE "disabled"
    /\ selected_voice' =
         IF loader = "failed" THEN selected_voice
         ELSE VoiceAfterLoad(tts_engine.key, selected_voice)
    /\ UNCHANGED << run_hist, queue_vars, flag_vars, pause_button, stop_button, tts_engine,
                    selected_tts_model, speaker_wav_path, env_vars, threads,
                    after_stop, disk_vars >>

\* ----------------------------------------------------------- run controls
\* stop_conversion without line 376.
StopBodyKeepsPause ==
    IF ~is_running
    THEN UNCHANGED << flag_vars, button_vars >>
    ELSE /\ is_running' = FALSE
         /\ is_paused' = is_paused
         /\ start_button' = "normal"
         /\ pause_button' = "disabled"
         /\ stop_button' = "disabled"
         /\ stop_inflight' = {j \in JobIds : jobs[j].status = "Processing"}

\* The body of stop_conversion, lines 374-381.
StopBody ==
    IF ~is_running
    THEN UNCHANGED << flag_vars, button_vars >>
    ELSE /\ is_running' = FALSE
         /\ is_paused' = FALSE
         /\ start_button' = "normal"
         /\ pause_button' = "disabled"
         /\ stop_button' = "disabled"
         /\ stop_inflight' = {j \in JobIds : jobs[j].status = "Processing"}

StartRejected ==
    \/ ~tts_engine.model
    \/ selected_tts_model = "VCTK" /\ selected_voice = ""
    \/ selected_tts_model = "XTTS" /\ speaker_wav_path = ""
    \/ is_running

start_conversion ==
    /\ window = "open"
    /\ start_button = "normal"
    /\ IF StartRejected
       THEN UNCHANGED << flag_vars, button_vars, threads, run_hist >>
       ELSE /\ \E w \in Workers : threads[w] = NoThread
            /\ is_running' = TRUE
            /\ is_paused' = FALSE
            /\ start_button' = "disabled"
            /\ pause_button' = "normal"
            /\ stop_button' = "normal"
            /\ stop_inflight' = {}
            /\ raised' = {}
            /\ last_output' = "none"
            /\ LET w == CHOOSE x \in Workers :
                          /\ threads[x] = NoThread
                          /\ \A y \in Workers : threads[y] = NoThread => x <= y
               IN  /\ threads' = [threads EXCEPT ![w] = [NoThread EXCEPT !.pc = "start"]]
                   /\ latest_thread' = w
    /\ UNCHANGED << queue_vars, model_vars, env_vars, after_stop, disk_vars >>

stop_conversion ==
    /\ window = "open"
    /\ stop_button = "normal"
    /\ StopBody
    /\ UNCHANGED << run_hist, queue_vars, model_vars, env_vars, threads, after_stop,
                    disk_vars >>

\* root.after(0, self.stop_conversion), run by the event loop.
after_stop_conversion ==
    /\ window = "open"
    /\ after_stop > 0
    /\ after_stop' = after_stop - 1
    /\ StopBody
    /\ UNCHANGED << run_hist, queue_vars, model_vars, env_vars, threads, disk_vars >>

pause_resume_conversion ==
    /\ window = "open"
    /\ pause_button = "normal"
    /\ is_paused' = ~is_paused
    /\ pause_held' = IF is_paused THEN {}
                     ELSE {w \in Workers : threads[w].pc = "pause"}
    /\ UNCHANGED << run_hist, queue_vars, is_running, stop_inflight, button_vars,
                    model_vars, encoder_vars, destination_folder, last_close, kokoro, gen,
                    threads, after_stop, disk_vars >>

\* ------------------------------------------------------------ process_queue
\* One thread's locals: pc (where it is), i (the loop index, 1-based; the
\* range is fixed when the loop starts), item (the job dict it holds) and
\* temp (temp_output_path, <<>> while unbound: it survives from one iteration
\* to the next).
\* A status write that a stopped run skips.
SetStatusIfRunning(js, j, st) == IF is_running THEN [js EXCEPT ![j].status = st] ELSE js

SetStatus(js, j, st) == [js EXCEPT ![j].status = st]

\* An iteration that ends the loop: the index is set past the last job.
LastIteration(ths, w) ==
    [ths EXCEPT ![w].pc = "loop", ![w].i = 0, ![w].item = 0]

\* The end of an iteration: the next index, and the job is let go.
NextIteration(ths, w) ==
    [ths EXCEPT ![w].pc = "loop", ![w].i = ths[w].i - 1, ![w].item = 0]

\* Lines 451-456, the handler of a failed job whose files are now fs.
ExceptFiles(fs, t) == IF t.temp # <<>> THEN fs \ {t.temp} ELSE fs

\* Lines 393-404: the prologue reads the loaded model, then fixes the range.
\* latest_thread once the threads are ths: a thread that has ended is no
\* longer named.
LiveLatest(ths) ==
    IF latest_thread # 0 /\ ths[latest_thread] = NoThread THEN 0 ELSE latest_thread

\* A loop that begins at the first index.
pq_begin_first(w) ==
    /\ threads[w].pc = "start"
    /\ threads' = IF tts_engine.model
                  THEN [threads EXCEPT ![w].pc = "loop", ![w].i = IF pdf_queue = <<>> THEN 0 ELSE 1]
                  ELSE [threads EXCEPT ![w] = NoThread]
    /\ latest_thread' = LiveLatest(threads')
    /\ UNCHANGED << raised, last_output, queue_vars, flag_vars, button_vars, model_vars, env_vars,
                    after_stop, disk_vars >>

pq_begin(w) ==
    /\ threads[w].pc = "start"
    /\ threads' = IF tts_engine.model
                  THEN [threads EXCEPT ![w].pc = "loop", ![w].i = Len(pdf_queue)]
                  ELSE [threads EXCEPT ![w] = NoThread]
    /\ latest_thread' = LiveLatest(threads')
    /\ UNCHANGED << raised, last_output, queue_vars, flag_vars, button_vars, model_vars, env_vars,
                    after_stop, disk_vars >>

\* Lines 404-405: the loop head and the running test.
pq_loop(w) ==
    /\ threads[w].pc = "loop"
    /\ threads' = [threads EXCEPT ![w].pc =
                      IF threads[w].i = 0 \/ ~is_running THEN "end" ELSE "pause"]
    /\ pause_held' = IF threads'[w].pc = "pause" /\ is_paused
                     THEN pause_held \cup {w} ELSE pause_held
    /\ UNCHANGED << run_hist, queue_vars, flag_vars, button_vars, model_vars,
                    encoder_vars, destination_folder, last_close, kokoro, gen, after_stop,
                    disk_vars >>

\* Whether the pause loop of lines 406-408 lets the thread through: its
\* break leaves the while loop only.
PauseLoopExits == ~is_paused \/ ~is_running

\* Lines 406-411: the pause loop, then the job is read and tested.
pq_fetch(w) ==
    LET t == threads[w]
    IN  /\ t.pc = "pause"
        /\ PauseLoopExits
        /\ threads' =
             IF t.i > Len(pdf_queue) THEN [threads EXCEPT ![w] = NoThread]
             ELSE IF jobs[pdf_queue[t.i]].status = "Complete"
                  THEN NextIteration(threads, w)
                  ELSE [threads EXCEPT ![w].pc = "mark", ![w].item = pdf_queue[t.i]]
        /\ pause_held' = pause_held \ {w}
        /\ latest_thread' = LiveLatest(threads')
        /\ UNCHANGED << raised, last_output, queue_vars, flag_vars, button_vars, model_vars,
                        encoder_vars, destination_folder, last_close, kokoro, gen, after_stop,
                        disk_vars >>

\* Line 415.
pq_mark(w) ==
    /\ threads[w].pc = "mark"
    /\ jobs' = SetStatus(jobs, threads[w].item, "Processing")
    /\ threads' = [threads EXCEPT ![w].pc = "extract"]
    /\ UNCHANGED << run_hist, pdf_queue, last_op, flag_vars, button_vars, model_vars,
                    env_vars, after_stop, disk_vars >>

\* Lines 418-429: text extraction, then the output names; ok is whether
\* fitz raised.
pq_extract(w, ok) ==
    LET t == threads[w]
    IN  /\ t.pc = "extract"
        /\ IF ok
           THEN /\ threads' = [threads EXCEPT ![w].pc = "synth",
                                  ![w].temp = TempOutputPath(jobs[t.item].path)]
                /\ UNCHANGED << jobs, files, raised >>
           ELSE /\ threads' = NextIteration(threads, w)
                /\ jobs' = Collect(pdf_queue, SetStatus(jobs, t.item, "Error"),
                                   threads')
                /\ files' = ExceptFiles(files, t)
                /\ raised' = raised \cup {t.item}
        /\ UNCHANGED << last_output, latest_thread, pdf_queue, last_op, flag_vars, button_vars, model_vars,
                        env_vars, after_stop, settings_file, window >>

\* The folder of temp_output_path exists: "" is the working directory, "gone"
\* a folder that was removed.
DestinationWritable == destination_folder # "gone"

\* Line 431: tts() raises when the engine has no model, when the library
\* does (ok = FALSE), perhaps after it has begun to write the file, or when
\* the file cannot be created.
pq_synth(w, ok) ==
    LET t == threads[w]
    IN  /\ t.pc = "synth"
        /\ IF ok /\ tts_engine.model /\ DestinationWritable
           THEN /\ threads' = [threads EXCEPT ![w].pc = "encode"]
                /\ files' = files \cup {t.temp}
                /\ UNCHANGED << jobs, raised >>
           ELSE /\ threads' = NextIteration(threads, w)
                /\ jobs' = Collect(pdf_queue, SetStatus(jobs, t.item, "Error"),
                                   threads')
                /\ files' = ExceptFiles(files, t)
                /\ raised' = raised \cup {t.item}
        /\ UNCHANGED << last_output, latest_thread, pdf_queue, last_op, flag_vars, button_vars, model_vars,
                        env_vars, after_stop, settings_file, window >>

\* Line 433: the encoder is used when it is asked for and found.
UsesEncoder == optimize_mp3 /\ ffmpeg

\* Line 447, os.rename(temp, final): the source must exist, and on Windows
\* the destination must not.
RenameSucceeds(fs, t, final) == t.temp \in fs /\ (windows => final \notin fs)

\* Lines 433-447: whether the job gets to line 449.  ok: the encoder exits
\* with code zero (it cannot when its input is missing).
EncodeSucceeds(fs, t, final, ok) ==
    IF UsesEncoder THEN ok /\ t.temp \in fs ELSE RenameSucceeds(fs, t, final)

EncodeOutcome(fs, t, final, ok) ==
    IF UsesEncoder
    THEN IF EncodeSucceeds(fs, t, final, ok) THEN "encoded" ELSE "encode failed"
    ELSE IF EncodeSucceeds(fs, t, final, ok) THEN "renamed" ELSE "rename failed"

\* The files afterwards.  partial: an encoder that fails had already
\* created (-y: or overwritten) its output file.
EncodeFiles(fs, t, final, ok, partial) ==
    IF EncodeSucceeds(fs, t, final, ok) THEN (fs \cup {final}) \ {t.temp}
    ELSE IF UsesEncoder /\ partial THEN ExceptFiles(fs \cup {final}, t)
    ELSE ExceptFiles(fs, t)

\* Lines 433-456: encode or rename, then Complete; or the handler.
pq_encode(w, ok, partial) ==
    LET t == threads[w]
        final == FinalOutputPath(jobs[t.item].path)
    IN  /\ t.pc = "encode"
        /\ files' = EncodeFiles(files, t, final, ok, partial)
        /\ threads' = NextIteration(threads, w)
        /\ raised' = IF EncodeSucceeds(files, t, final, ok) THEN raised
                     ELSE raised \cup {t.item}
        /\ last_output' = EncodeOutcome(files, t, final, ok)
        /\ UNCHANGED latest_thread
        /\ jobs' = Collect(pdf_queue,
                      SetStatus(jobs, t.item,
                         IF EncodeSucceeds(files, t, final, ok) THEN "Complete" ELSE "Error"),
                      threads')
        /\ UNCHANGED << pdf_queue, last_op, flag_vars, button_vars, model_vars,
                        env_vars, after_stop, settings_file, window >>

\* process_queue without line 460: the thread ends and nothing is posted.
pq_end_unposted(w) ==
    /\ threads[w].pc = "end"
    /\ threads' = [threads EXCEPT ![w] = NoThread]
    /\ latest_thread' = LiveLatest(threads')
    /\ UNCHANGED << raised, last_output, queue_vars, flag_vars, button_vars, model_vars, env_vars,
                    after_stop, disk_vars >>

\* Lines 458-460: the thread ends, and asks the event loop for
\* stop_conversion when the run is still on.
pq_end(w) ==
    /\ threads[w].pc = "end"
    /\ is_running => after_stop < MaxAfter
    /\ after_stop' = IF is_running THEN after_stop + 1 ELSE after_stop
    /\ threads' = [threads EXCEPT ![w] = NoThread]
    /\ latest_thread' = LiveLatest(threads')
    /\ UNCHANGED << raised, last_output, queue_vars, flag_vars, button_vars, model_vars, env_vars,
                    disk_vars >>

\* ------------------------------------------------------- the option fields
\* select_destination: directory is what the dialog returns ("": cancelled).
select_destination(directory) ==
    /\ window = "open"
    /\ destination_folder' = IF directory # "" THEN directory ELSE destination_folder
    /\ UNCHANGED << run_hist, queue_vars, flag_vars, button_vars, model_vars,
                    encoder_vars, last_close, pause_held, kokoro, gen, threads, after_stop,
                    disk_vars >>

\* select_voice_file: filepath is what the dialog returns ("": cancelled).
select_voice_file(filepath) ==
    /\ window = "open"
    /\ speaker_wav_path' = IF filepath # "" THEN filepath ELSE speaker_wav_path
    /\ UNCHANGED << run_hist, queue_vars, flag_vars, button_vars, tts_engine, loader,
                    selected_tts_model, selected_voice, env_vars, threads,
                    after_stop, disk_vars >>

\* The model dropdown (textvariable selected_tts_model); it is disabled from
\* threaded_load_model to update_model_status.
select_model(key) ==
    /\ window = "open"
    /\ loader = "idle"
    /\ selected_tts_model' = key
    /\ UNCHANGED << run_hist, queue_vars, flag_vars, button_vars, tts_engine, loader,
                    selected_voice, speaker_wav_path, env_vars, threads,
                    after_stop, disk_vars >>

\* The Optimize MP3 checkbox; check_ffmpeg disables it when it finds no encoder.
toggle_optimize ==
    /\ window = "open"
    /\ ffmpeg
    /\ optimize_mp3' = ~optimize_mp3
    /\ UNCHANGED << run_hist, queue_vars, flag_vars, button_vars, model_vars, ffmpeg,
                    windows, dest_before, destination_folder, last_close,
                    pause_held, kokoro, gen, threads, after_stop, disk_vars >>

\* ---------------------------------------------------------------- closing
\* on_closing: confirmed is the answer to the Confirm Quit dialog and io is
\* how the write of save_settings goes: "ok", "denied" (open raises, the file
\* is as it was) or "torn" (the file is truncated, then the write raises).
\* save_settings catches nothing, so root.destroy() is reached only after a
\* write that succeeded.  Once the window is destroyed the process ends and
\* its daemon threads with it.
on_closing(confirmed, io) ==
    /\ window = "open"
    /\ IF is_running /\ ~confirmed
       THEN /\ last_close' = "declined"
            /\ UNCHANGED << flag_vars, button_vars, threads, after_stop, jobs,
                            settings_file, window >>
       ELSE /\ StopBody
            /\ last_close' = IF io = "ok" THEN "saved" ELSE "save failed"
            /\ settings_file' = CASE io = "ok" -> save_settings
                                  [] io = "denied" -> settings_file
                                  [] OTHER -> TornSettings
            /\ window' = IF io = "ok" THEN "closed" ELSE "open"
            /\ threads' = IF io = "ok" THEN [w \in Workers |-> NoThread] ELSE threads
            /\ after_stop' = IF io = "ok" THEN 0 ELSE after_stop
            /\ jobs' = Collect(pdf_queue, jobs, threads')
    /\ latest_thread' = LiveLatest(threads')
    /\ UNCHANGED << raised, last_output, pdf_queue, last_op, model_vars, encoder_vars,
                    destination_folder, pause_held, kokoro, gen, files >>

\* The program is started again: __init__ on what the disk holds.
restart(ff) ==
    LET a == Fresh(settings_file, ff, files)
    IN  /\ window = "closed"
        /\ pdf_queue' = a.pdf_queue
        /\ jobs' = a.jobs
        /\ is_running' = FALSE
        /\ is_paused' = FALSE
        /\ start_button' = "disabled"
        /\ pause_button' = "disabled"
        /\ stop_button' = "disabled"
        /\ tts_engine' = NoEngine
        /\ loader' = "idle"
        /\ selected_tts_model' = a.selected_tts_model
        /\ selected_voice' = a.selected_voice
        /\ speaker_wav_path' = a.speaker_wav_path
        /\ optimize_mp3' = a.optimize_mp3
        /\ ffmpeg' = a.ffmpeg
        /\ windows' = windows
        /\ dest_before' = files
        /\ destination_folder' = a.destination_folder
        /\ last_close' = "none"
        /\ pause_held' = {}
        /\ kokoro' = kokoro
        /\ gen' = gen
        /\ threads' = [w \in Workers |-> NoThread]
        /\ after_stop' = 0
        /\ last_op' = NoOp
        /\ stop_inflight' = {}
        /\ raised' = {}
        /\ latest_thread' = 0
        /\ last_output' = "none"
        /\ window' = IF StartupRaises(settings_file) THEN "crashed" ELSE "open"
        /\ UNCHANGED << files, settings_file >>

\* ------------------------------------------------- the queue handlers alone
QueueSettings ==
    { NoSettings,
      SavedSettings(<<SavedJob(1, "Complete", P3), SavedJob(2, "Error", P2)>>) }

\* PDFConverterApp started alone.
Construct(sf, ff, win, fs, loaded) ==
    /\ ConstructApp(sf, ff, win, fs, loaded)
    /\ kokoro = KokoroOff
    /\ gen = GenIdle

QueueInit == \E sf \in QueueSettings : Construct(sf, TRUE, FALSE, {}, FALSE)

QueueNext ==
    \/ \E walk \in Walks : find_pdfs(walk)
    \/ \E index \in 0..Len(pdf_queue), direction \in {-1, 1} :
          move_item(index, direction)
    \/ \E rows \in SUBSET (1..Len(pdf_queue)), confirmed \in BOOLEAN :
          delete_selected_pdfs(rows, confirmed)

QueueSpec == QueueInit /\ [][QueueNext]_vars

\* -------------------------------------------- the controls and the worker
\* settings.json as an earlier session left it: two jobs waiting.
ControlSettings ==
    { SavedSettings(<<SavedJob(1, "Pending", P1), SavedJob(2, "Pending", P3)>>) }

Init == \E sf \in ControlSettings : Construct(sf, FALSE, FALSE, {}, TRUE)

Worker(w) ==
    \/ pq_begin(w)
    \/ pq_loop(w)
    \/ pq_fetch(w)
    \/ pq_mark(w)
    \/ \E ok \in BOOLEAN : pq_extract(w, ok)
    \/ \E ok \in BOOLEAN : pq_synth(w, ok)
    \/ \E ok \in BOOLEAN, partial \in BOOLEAN : pq_encode(w, ok, partial)
    \/ pq_end(w)

\* The program with its model loaded: the run controls and the threads.
Next ==
    \/ start_conversion
    \/ stop_conversion
    \/ after_stop_conversion
    \/ pause_resume_conversion
    \/ \E w \in Workers : Worker(w)

Spec == Init /\ [][Next]_vars

\* Queues of two jobs of which one is already Complete.
StopSettings ==
    { SavedSettings(<<SavedJob(1, "Complete", P1), SavedJob(2, "Pending", P3)>>),
      SavedSettings(<<SavedJob(1, "Pending", P1), SavedJob(2, "Complete", P3)>>) }

StopInit == \E sf \in StopSettings : Construct(sf, FALSE, FALSE, {}, TRUE)

\* The run controls and the workers, with every live worker thread scheduled.
StopSpec ==
    /\ StopInit
    /\ [][Next]_vars
    /\ \A w \in Workers : WF_vars(Worker(w))

\* The program from __init__ on, with model loads, closing and restarting.
SessionInit == \E sf \in ControlSettings : Construct(sf, FALSE, FALSE, {}, FALSE)

SessionNext ==
    \/ Next
    \/ threaded_load_model
    \/ \E ok \in BOOLEAN : load_model_task(ok)
    \/ update_model_status
    \/ \E confirmed \in BOOLEAN, io \in {"ok", "denied", "torn"} :
          on_closing(confirmed, io)
    \/ restart(FALSE)
    \/ \E directory \in {"", "D"} : select_destination(directory)
    \/ \E filepath \in {"", "w"} : select_voice_file(filepath)
    \/ \E key \in {"VCTK", "XTTS"} : select_model(key)
    \/ toggle_optimize

SessionSpec == SessionInit /\ [][SessionNext]_vars

\* ------------------------------------- options, model loads and closing
\* settings.json as the program finds it: none, one it wrote, one with only
\* some keys, one whose destination is empty or was removed, and files that
\* are not what it writes.
SetupQueue == <<SavedJob(1, "Pending", P1)>>
SetupSettings ==
    { NoSettings,
      SavedSettings(SetupQueue),
      [SavedSettings(SetupQueue) EXCEPT !.keys = {"pdf_queue", "selected_voice"}],
      [SavedSettings(SetupQueue) EXCEPT !.destination_folder = ""],
      [SavedSettings(SetupQueue) EXCEPT !.destination_folder = "gone",
                                        !.selected_tts_model = "XTTS",
                                        !.speaker_wav_path = "w",
                                        !.selected_voice = ""],
      [NoSettings EXCEPT !.kind = "corrupt"],
      [NoSettings EXCEPT !.kind = "list"],
      [NoSettings EXCEPT !.kind = "bad_queue", !.keys = {"pdf_queue"}] }

\* The options, one run and closing.  A model is loaded when the settings
\* name one.
CloseInit ==
    \E sf \in SetupSettings, ff \in BOOLEAN :
        Construct(sf, ff, FALSE, {}, load_settings(sf).selected_tts_model # "")

CloseNext ==
    \/ \E directory \in {"", "D"} : select_destination(directory)
    \/ start_conversion
    \/ after_stop_conversion
    \/ \E w \in Workers : Worker(w)
    \/ \E confirmed \in BOOLEAN, io \in {"ok", "denied", "torn"} :
          on_closing(confirmed, io)
    \/ restart(ffmpeg)

CloseSpec == CloseInit /\ [][CloseNext]_vars

\* Model loads and the run controls.
LoadSettings ==
    { SavedSettings(SetupQueue),
      [SavedSettings(SetupQueue) EXCEPT !.destination_folder = ""] }

LoadInit == \E sf \in LoadSettings : Construct(sf, FALSE, FALSE, {}, FALSE)

LoadNext ==
    \/ \E key \in {"VCTK", "XTTS"} : select_model(key)
    \/ threaded_load_model
    \/ \E ok \in BOOLEAN : load_model_task(ok)
    \/ update_model_status
    \/ start_conversion
    \/ stop_conversion
    \/ after_stop_conversion
    \/ \E w \in Workers : Worker(w)

LoadSpec == LoadInit /\ [][LoadNext]_vars

\* ------------------------------------------------- one run left to itself
\* The encoder is uninstalled, or leaves the PATH, while the program runs.
ffmpeg_removed ==
    /\ ffmpeg
    /\ ffmpeg' = FALSE
    /\ UNCHANGED << queue_vars, flag_vars, button_vars, model_vars, optimize_mp3,
                    windows, dest_before, destination_folder, last_close,
                    pause_held, kokoro, gen, threads, after_stop, disk_vars, run_hist >>

Injective(q) == \A a, b \in DOMAIN q : a # b => q[a] # q[b]

\* Every duplicate-free queue of waiting jobs over the source files.
PendingQueues ==
    { [k \in DOMAIN q |-> SavedJob(k, "Pending", q[k])] :
        q \in { x \in UNION { [1..n -> Paths] : n \in 0..MaxQueue } : Injective(x) } }

RunSettings ==
    { [SavedSettings(q) EXCEPT !.optimize_mp3 = o] :
        q \in PendingQueues, o \in BOOLEAN }

\* The destination folder at the start: empty, or holding the output of an
\* earlier conversion of /x/d/a.pdf.
Destinations == { {}, {FinalOutputPath(P1)} }

\* The model is loaded, the user presses Start and nothing else.
RunInit ==
    \E sf \in RunSettings, ff \in BOOLEAN, win \in BOOLEAN, fs \in Destinations :
        Construct(sf, ff, win, fs, TRUE)

RunNext ==
    \/ start_conversion
    \/ after_stop_conversion
    \/ ffmpeg_removed
    \/ \E w \in Workers : Worker(w)

\* The thread is scheduled, and the event loop runs the callbacks it is given.
RunSpec ==
    /\ RunInit
    /\ [][RunNext]_vars
    /\ WF_vars(\E w \in Workers : Worker(w))
    /\ WF_vars(after_stop_conversion)

\* The user edits the queue on the UI thread while runs go on: the queue
\* buttons of lines 180-183 stay enabled during a run.  The queue starts
\* with one job, and the folder the user adds holds one more file.
MutateWalks == { <<P3>> }

MutateInit ==
    \E sf \in {SavedSettings(SetupQueue)} : Construct(sf, FALSE, FALSE, {}, TRUE)

MutateNext ==
    \/ start_conversion
    \/ after_stop_conversion
    \/ \E w \in Workers : Worker(w)
    \/ \E walk \in MutateWalks : find_pdfs(walk)
    \/ \E index \in 0..Len(pdf_queue), direction \in {-1, 1} :
          move_item(index, direction)
    \/ \E rows \in SUBSET (1..Len(pdf_queue)), confirmed \in BOOLEAN :
          delete_selected_pdfs(rows, confirmed)

MutateSpec == MutateInit /\ [][MutateNext]_vars

\* ------------------------------------------------------------------ claims
QueueNow == Snapshot(pdf_queue, jobs)
PathsOf(items) == [k \in 1..Len(items) |-> items[k].path]
PdfsOf(walk) == {walk[k] : k \in {n \in 1..Len(walk) : IsPdf(walk[n].file)}}

\* C9: no two jobs of pdf_queue have the same source path, after any sequence
\* of find_pdfs, move_item and delete_selected_pdfs from a duplicate-free
\* queue; and a find_pdfs whose PDFs are all queued already leaves the queue
\* as it was.
C9_NoDuplicatePaths ==
    /\ \A a, b \in 1..Len(pdf_queue) :
          a # b => jobs[pdf_queue[a]].path # jobs[pdf_queue[b]].path
    /\ (last_op.op = "find_pdfs"
          /\ PdfsOf(last_op.walk) \subseteq Range(PathsOf(last_op.before)))
       => QueueNow = last_op.before

\* C9 witness: find_pdfs has met a folder whose PDFs were all queued already.
C9_Witness ==
    /\ last_op.op = "find_pdfs"
    /\ PdfsOf(last_op.walk) # {}
    /\ PdfsOf(last_op.walk) \subseteq Range(PathsOf(last_op.before))
    /\ Len(pdf_queue) >= 2

\* The queue b with the jobs at positions i and k exchanged.
Swapped(b, i, k) ==
    [n \in 1..Len(b) |-> IF n = i THEN b[k] ELSE IF n = k THEN b[i] ELSE b[n]]

MoveTargetInside ==
    /\ last_op.index # 0
    /\ 1 <= last_op.index + last_op.direction
    /\ last_op.index + last_op.direction <= Len(last_op.before)

\* C10: move_item(direction) on the job at index i leaves the queue (jobs,
\* order, statuses) unchanged when i + direction is outside the queue, and
\* otherwise exchanges the jobs at i and i + direction and nothing else.
C10_MoveItem ==
    last_op.op = "move_item" =>
        QueueNow = IF MoveTargetInside
                   THEN Swapped(last_op.before, last_op.index,
                                last_op.index + last_op.direction)
                   ELSE last_op.before

\* C10 witness: a job in the middle of a three-job queue has been moved down.
C10_Witness ==
    /\ last_op.op = "move_item"
    /\ Len(last_op.before) = 3
    /\ last_op.index = 2
    /\ last_op.direction = 1
    /\ QueueNow # last_op.before

\* C10 witness of the no-op case: Move Down on the last job.
C10_WitnessOutside ==
    /\ last_op.op = "move_item"
    /\ Len(last_op.before) >= 2
    /\ last_op.index = Len(last_op.before)
    /\ last_op.direction = 1

\* A thread that has entered process_queue's loop and not yet left it.
Executing(w) == threads[w].pc \in {"loop", "pause", "mark", "extract", "synth", "encode"}

\* C1: once stop_conversion has acted during a run, and until the next
\* Start, no job changes status except a job that was in Processing at that
\* Stop, and the run state is Idle (is_running and is_paused both false).
C1_StopFreezesOtherJobs ==
    /\ [][(~is_running /\ ~is_running')
            => \A j \in JobIds :
                  jobs'[j].status # jobs[j].status => j \in stop_inflight]_vars
    /\ [](~is_running => ~is_paused)

\* C2: at most one process_queue thread is executing at any time.
C2_OneWorker == Cardinality({w \in Workers : Executing(w)}) <= 1

\* C3: a job that is Complete is never set to Processing or Error again, and
\* synthesize is never called for it, in this run or any later one.
C3_CompleteIsFinal ==
    [][/\ \A j \in JobIds :
            jobs[j].status = "Complete"
               => jobs'[j].status \notin {"Processing", "Error"}
       /\ \A w \in Workers :
            (threads[w].pc = "synth" /\ threads'[w].pc # "synth")
               => jobs[threads[w].item].status # "Complete"]_vars

\* The queue's jobs, and those with a given status.
Queued == Range(pdf_queue)
WithStatus(st) == {j \in Queued : jobs[j].status = st}

\* No thread is alive, no callback waits and the run state is Idle.
Quiescent ==
    /\ ~is_running
    /\ after_stop = 0
    /\ \A w \in Workers : threads[w] = NoThread

\* The output names the naming scheme documents, written out per source file:
\* <sanitised parent folder name>_<source file stem>.mp3, and the same with
\* _temp before the extension.
DocumentedFinal(p) ==
    CASE p = P1 -> <<"d", "_", "a", ".", "mp3">>
      [] p = P2 -> <<"d", "_", "a", ".", "mp3">>
      [] p = P3 -> <<"d", "_", "b", ".", "mp3">>
      [] OTHER -> <<>>

DocumentedTemp(p) ==
    CASE p = P1 -> <<"d", "_", "a", "_", "temp", ".", "mp3">>
      [] p = P2 -> <<"d", "_", "a", "_", "temp", ".", "mp3">>
      [] p = P3 -> <<"d", "_", "b", "_", "temp", ".", "mp3">>
      [] OTHER -> <<>>

AllDone == \A j \in Queued : jobs[j].status \in {"Complete", "Error"}

\* C4: once Start is accepted on a queue of waiting jobs and the user does
\* nothing more, every job reaches Complete or Error and the run ends.
C4_RunEnds == is_running ~> (Quiescent /\ AllDone)

\* C4 witness: a run over three jobs has ended, with jobs of both outcomes.
C4_Witness ==
    /\ Quiescent
    /\ Len(pdf_queue) = 3
    /\ AllDone
    /\ WithStatus("Complete") # {}
    /\ WithStatus("Error") # {}
    /\ last_output # "none"

\* Names taken by the outputs of a job.
OutputNames(j) == {DocumentedFinal(jobs[j].path), DocumentedTemp(jobs[j].path)}

\* The files in the destination folder that are a Complete job's output.
CompleteFiles ==
    {f \in files : \E j \in WithStatus("Complete") : f = DocumentedFinal(jobs[j].path)}

\* C5: after a run over a duplicate-free queue, into a destination folder
\* that was empty, there are as many final output files of Complete jobs as
\* Complete jobs: each Complete job has its file under the documented name
\* <sanitised parent folder name>_<source file stem>.mp3, and no two jobs
\* share an output file.
C5_OneFilePerCompleteJob ==
    (Quiescent /\ dest_before = {}) =>
        /\ Cardinality(CompleteFiles) = Cardinality(WithStatus("Complete"))
        /\ \A j \in WithStatus("Complete") : DocumentedFinal(jobs[j].path) \in files
        /\ \A a, b \in WithStatus("Complete") :
              a # b => DocumentedFinal(jobs[a].path) # DocumentedFinal(jobs[b].path)

\* A thread has left the loop because the range is exhausted.
Exhausted(w) == threads[w].pc = "end" /\ threads[w].i = 0 /\ is_running

\* C6: a job whose extraction, synthesis or encoding raised ends in Error and
\* the run goes on: when the run has visited the whole queue every job whose
\* step raised is in Error and every other job is Complete.
C6_ErrorDoesNotAbort ==
    \A w \in Workers :
        Exhausted(w) =>
            \A j \in Queued :
                jobs[j].status = IF j \in raised THEN "Error" ELSE "Complete"

\* C6 witness: the run is over, the second of three jobs raised and the jobs
\* before and after it are Complete.
C6_Witness ==
    /\ \E w \in Workers : Exhausted(w)
    /\ Len(pdf_queue) = 3
    /\ raised = {pdf_queue[2]}
    /\ jobs[pdf_queue[1]].status = "Complete"
    /\ jobs[pdf_queue[3]].status = "Complete"

\* A file a failed attempt of job j can have left: it has one of j's output
\* names, was not in the destination folder at the start and is no Complete
\* job's final file.
LeftBehind(j) ==
    { f \in (OutputNames(j) \cap files) \ dest_before :
        \A c \in WithStatus("Complete") : DocumentedFinal(jobs[c].path) # f }

\* C7: when a job has ended in Error and its iteration is over, neither its
\* temporary file nor a final file of the failed attempt is in the
\* destination folder.
C7_NoPartialOutput ==
    \A j \in WithStatus("Error") : j \notin Held(threads) => LeftBehind(j) = {}

\* C8: with the optimize flag set and no encoder found, a job whose synthesis
\* succeeded is renamed to its final path and is Complete: its output is not
\* dropped and it is not marked Error.
C8_RenameFallback ==
    [][\A w \in Workers :
         (/\ threads[w].pc = "encode"
          /\ threads'[w].pc # "encode"
          /\ optimize_mp3
          /\ ~ffmpeg)
         => LET j == threads[w].item
            IN  /\ jobs'[j].status = "Complete"
                /\ last_output' = "renamed"
                /\ DocumentedFinal(jobs[j].path) \in files'
                /\ DocumentedTemp(jobs[j].path) \notin files']_vars

\* ------------------------------------------------------------ KokoroTTSApp, actions
\* PDFConverterApp takes no step while the second program is looked at.
converter_vars == << queue_vars, flag_vars, button_vars, model_vars, encoder_vars,
                     destination_folder, last_close, pause_held, threads,
                     after_stop, disk_vars, run_hist >>

\* debounced_save that does not cancel the timer it replaces.
debounced_save_uncancelled(a) ==
    [a EXCEPT !.save_timer = TRUE, !.timers = IF @ < MaxTimers THEN @ + 1 ELSE @]

\* debounced_save (lines 370-381), outside load_settings: the timer that
\* save_timer names is cancelled (no effect once it has fired) and
\* save_settings is scheduled 400 ms later.
debounced_save(a) ==
    [a EXCEPT !.save_timer = TRUE, !.timers = (IF a.save_timer THEN @ - 1 ELSE @) + 1]

\* The values the widgets of setup_ui give each option.
OptionValues(k) ==
    CASE k = "selected_voice" -> KOKORO_VOICES
      [] k = "speed" -> {10, 15}
      [] k = "output_format" -> {"wav", "mp3"}
      [] k = "output_path" -> {Downloads, <<"D", "/">>, <<"nope", "x">>}
      [] k = "text_input" -> {<<>>, <<"hi">>, <<" ", "hi">>}
      [] k = "console_visible" -> BOOLEAN
      [] k = "log_level_filter" -> LOG_LEVELS

\* The user changes option k to v; every widget's callback ends in
\* debounced_save (lines 436, 445, 460, 467, 497, 511, 533, 541).  The MP3
\* radio button is disabled without the encoder (line 459).
set_option(k, v) ==
    /\ kokoro.window = "open"
    /\ (k = "output_format" /\ v = "mp3") => kokoro.has_ffmpeg
    /\ kokoro' = debounced_save([kokoro EXCEPT ![k] = v])
    /\ UNCHANGED << converter_vars, gen >>

\* The timer fires: save_settings (lines 352-368).  A failing write is caught
\* and logged; it leaves the file as it was ("denied") or truncated ("torn").
kokoro_save_settings(io) ==
    /\ kokoro.window = "open"
    /\ kokoro.timers > 0
    /\ kokoro' = [kokoro EXCEPT
                    !.timers = @ - 1,
                    !.save_timer = (kokoro.timers > 1),
                    !.settings_file = CASE io = "ok" -> KokoroSaved(kokoro)
                                        [] io = "denied" -> @
                                        [] io = "torn" -> [KokoroNoFile EXCEPT !.kind = "corrupt"],
                    !.has_saved = (io = "ok"),
                    !.saved = IF io = "ok" THEN KokoroFields(kokoro) ELSE @]
    /\ UNCHANGED << converter_vars, gen >>

\* The window is closed.  main (lines 884-899) registers no close handler:
\* mainloop returns, and a scheduled save never runs.
kokoro_close ==
    /\ kokoro.window = "open"
    /\ kokoro' = [kokoro EXCEPT !.window = "closed", !.save_timer = FALSE,
                                 !.timers = 0]
    /\ UNCHANGED << converter_vars, gen >>

\* The program is started again in the same environment.
kokoro_start ==
    /\ kokoro.window = "closed"
    /\ kokoro' = KokoroApp(kokoro.settings_file, kokoro.has_ffmpeg)
    /\ UNCHANGED << converter_vars, gen >>

\* ------------------------------------------------------------ KokoroTTSApp, generation
\* Files in the output folder: segs is the number of segments in the audio.
OutputName(voice, count, ext) == <<"kokoro", voice, count, ext>>
TempWav == <<"temp_kokoro_output", "wav">>
FolderWrite(folder, name, segs) ==
    {f \in folder : f.name # name} \cup {[name |-> name, segs |-> segs]}

\* start_generation (lines 765-789), from the Generate button.
start_generation ==
    /\ kokoro.window = "open"
    /\ gen.generate_button = "normal"
    /\ IF gen.is_processing \/ Strip(kokoro.text_input) = <<>>
       THEN UNCHANGED gen
       ELSE \E w \in GenThreads :
               /\ gen.threads[w] = NoGenThread
               /\ \A y \in GenThreads : gen.threads[y] = NoGenThread => w <= y
               /\ gen' = [gen EXCEPT !.is_processing = TRUE,
                                     !.generate_button = "disabled",
                                     !.stop_button = "normal",
                                     !.threads[w] = [NoGenThread EXCEPT !.pc = "init"]]
    /\ UNCHANGED << converter_vars, kokoro >>

\* A stop_generation that also gives the Generate button back.
stop_generation_releasing ==
    /\ kokoro.window = "open"
    /\ gen.stop_button = "normal"
    /\ gen' = [gen EXCEPT !.is_processing = FALSE, !.generate_button = "normal"]
    /\ UNCHANGED << converter_vars, kokoro >>

\* stop_generation (lines 791-794), from the Stop button.
stop_generation ==
    /\ kokoro.window = "open"
    /\ gen.stop_button = "normal"
    /\ gen' = [gen EXCEPT !.is_processing = FALSE]
    /\ UNCHANGED << converter_vars, kokoro >>

\* Lines 799-816: the pipeline is created at the first generation; ok is
\* whether KPipeline raised.
gs_begin(w, ok) ==
    /\ gen.threads[w].pc = "init"
    /\ gen' = IF gen.pipeline \/ ok
              THEN [gen EXCEPT !.pipeline = TRUE, !.threads[w].pc = "loop"]
              ELSE [gen EXCEPT !.threads[w].pc = "finally", !.threads[w].error = "other"]
    /\ UNCHANGED << converter_vars, kokoro >>

\* The thread record after the loop of lines 818-825 is left: line 827
\* raises when nothing was collected.
AfterLoop(t) ==
    IF t.segs = 0 THEN [t EXCEPT !.pc = "finally", !.error = "No audio generated"]
    ELSE [t EXCEPT !.pc = "save"]

\* A loop that appends the segment before it tests the flag.
LoopStepAppendFirst(t, yield) ==
    CASE yield = "segment" ->
            IF gen.is_processing THEN [t EXCEPT !.segs = @ + 1]
            ELSE AfterLoop([t EXCEPT !.segs = @ + 1, !.observed = TRUE])
      [] yield = "done" -> AfterLoop(t)
      [] OTHER -> [t EXCEPT !.pc = "finally", !.error = "other"]

\* One round of the loop of lines 818-825: the pipeline yields a segment,
\* is exhausted, or raises; a yielded segment is appended unless the flag is
\* found false at line 820.
LoopStep(t, yield) ==
    CASE yield = "segment" ->
            IF gen.is_processing THEN [t EXCEPT !.segs = @ + 1]
            ELSE AfterLoop([t EXCEPT !.observed = TRUE])
      [] yield = "done" -> AfterLoop(t)
      [] OTHER -> [t EXCEPT !.pc = "finally", !.error = "other"]

gs_segment(w, yield) ==
    /\ gen.threads[w].pc = "loop"
    /\ yield = "segment" => gen.threads[w].segs < MaxSegments
    /\ gen' = [gen EXCEPT !.threads[w] = LoopStep(@, yield)]
    /\ UNCHANGED << converter_vars, kokoro >>

\* Lines 830-858 up to the first write: the WAV that is the output, or the
\* temporary WAV when MP3 is asked for and the encoder is there.
gs_save(w, ok) ==
    LET t == gen.threads[w]
        name == OutputName(kokoro.selected_voice, t.segs, "wav")
    IN  /\ t.pc = "save"
        /\ gen' =
             IF ~ok
             THEN [gen EXCEPT !.threads[w].pc = "finally", !.threads[w].error = "other"]
             ELSE IF kokoro.output_format = "mp3" /\ kokoro.has_ffmpeg
             THEN [gen EXCEPT !.threads[w].pc = "convert",
                              !.threads[w].written = {TempWav},
                              !.folder = FolderWrite(@, TempWav, t.segs)]
             ELSE [gen EXCEPT !.threads[w].pc = "finally",
                              !.threads[w].output = name,
                              !.threads[w].written = {name},
                              !.folder = FolderWrite(@, name, t.segs)]
        /\ UNCHANGED << converter_vars, kokoro >>

\* Lines 848-854: ffmpeg converts the temporary WAV, which is then removed.
gs_convert(w, ok) ==
    LET t == gen.threads[w]
        name == OutputName(kokoro.selected_voice, t.segs, "mp3")
    IN  /\ t.pc = "convert"
        /\ gen' =
             IF ~ok
             THEN [gen EXCEPT !.threads[w].pc = "finally", !.threads[w].error = "other"]
             ELSE [gen EXCEPT !.threads[w].pc = "finally",
                              !.threads[w].output = name,
                              !.threads[w].written = {name},
                              !.folder = {f \in FolderWrite(@, name, t.segs) :
                                             f.name # TempWav}]
        /\ UNCHANGED << converter_vars, kokoro >>

\* A finally block that leaves the flag alone.
gs_finally_unreleased(w) ==
    /\ gen.threads[w].pc = "finally"
    /\ gen' = [gen EXCEPT !.after = @ \o <<"generate_normal", "stop_disabled">>,
                          !.last = gen.threads[w],
                          !.threads[w] = NoGenThread]
    /\ UNCHANGED << converter_vars, kokoro >>

\* Lines 877-881: the flag is cleared, and the event loop is asked to reset
\* the two buttons; the thread ends.
gs_finally(w) ==
    /\ gen.threads[w].pc = "finally"
    /\ gen' = [gen EXCEPT !.is_processing = FALSE,
                          !.after = @ \o <<"generate_normal", "stop_disabled">>,
                          !.last = gen.threads[w],
                          !.threads[w] = NoGenThread]
    /\ UNCHANGED << converter_vars, kokoro >>

\* The event loop runs the oldest root.after(0, ..) callback.
run_after ==
    /\ kokoro.window = "open"
    /\ gen.after # <<>>
    /\ gen' = [gen EXCEPT !.after = Tail(@),
                          !.generate_button =
                              IF Head(gen.after) = "generate_normal" THEN "normal" ELSE @,
                          !.stop_button =
                              IF Head(gen.after) = "stop_disabled" THEN "disabled" ELSE @]
    /\ UNCHANGED << converter_vars, kokoro >>

GenWorker(w) ==
    \/ \E ok \in BOOLEAN : gs_begin(w, ok)
    \/ \E yield \in {"segment", "done", "raise"} : gs_segment(w, yield)
    \/ \E ok \in BOOLEAN : gs_save(w, ok)
    \/ \E ok \in BOOLEAN : gs_convert(w, ok)
    \/ gs_finally(w)

\* Settings found at the start: a text, and either output format.
GenSettings ==
    { [kind |-> "ok", voice |-> "af_bella", speed |-> 10, output_format |-> f,
       output_path |-> Downloads, text_input |-> <<"hi">>,
       console_visible |-> FALSE, log_level_filter |-> "INFO"] : f \in {"wav", "mp3"} }

GenInit ==
    /\ ConstructApp(NoSettings, TRUE, FALSE, {}, FALSE)
    /\ \E sf \in GenSettings, ff \in BOOLEAN : kokoro = KokoroApp(sf, ff)
    /\ gen = GenIdle

GenNext ==
    \/ start_generation
    \/ stop_generation
    \/ \E w \in GenThreads : GenWorker(w)
    \/ run_after

\* The threads are scheduled and the event loop runs its callbacks.
GenSpec ==
    /\ GenInit
    /\ [][GenNext]_vars
    /\ \A w \in GenThreads : WF_vars(GenWorker(w))
    /\ WF_vars(run_after)

\* Settings files found at the first start: none, not JSON, a JSON list, and
\* an object whose values all fail load_settings' tests.
KokoroSettings ==
    {KokoroNoFile,
     [KokoroNoFile EXCEPT !.kind = "corrupt"],
     [KokoroNoFile EXCEPT !.kind = "list"],
     [kind |-> "ok", voice |-> "zz", speed |-> 30, output_format |-> "ogg",
      output_path |-> <<"nope", "x">>, text_input |-> <<>>,
      console_visible |-> FALSE, log_level_filter |-> "X"]}

KokoroInit ==
    /\ ConstructApp(NoSettings, TRUE, FALSE, {}, FALSE)
    /\ \E sf \in KokoroSettings, ff \in BOOLEAN : kokoro = KokoroApp(sf, ff)
    /\ gen = GenIdle

KokoroNext ==
    \/ \E k \in KokoroOptions : \E v \in OptionValues(k) : set_option(k, v)
    \/ \E io \in {"ok", "denied", "torn"} : kokoro_save_settings(io)
    \/ kokoro_close
    \/ kokoro_start

KokoroSpec == KokoroInit /\ [][KokoroNext]_vars

\* The fields save_settings writes, as they are now.
CurrentFields ==
    [pdf_queue |-> Snapshot(pdf_queue, jobs),
     destination_folder |-> destination_folder,
     selected_voice |-> selected_voice,
     speaker_wav_path |-> speaker_wav_path,
     selected_tts_model |-> selected_tts_model,
     optimize_mp3 |-> optimize_mp3]

\* C11: save_settings followed by load_settings restores the saved queue
\* (jobs, order, statuses), destination folder, voice, speaker wav path,
\* model and optimize flag: once on_closing has saved and closed, loading
\* the file gives the fields as they were at the save.
C11_SettingsRoundTrip ==
    window = "closed" => load_settings(settings_file) = CurrentFields

\* C11 witness: the program was closed during a run, with a job in
\* Processing, a chosen destination and voice file and the flag cleared.
C11_Witness ==
    /\ window = "closed"
    /\ last_close = "saved"
    /\ Len(pdf_queue) = 1
    /\ jobs[pdf_queue[1]].status = "Processing"
    /\ destination_folder = "D"
    /\ speaker_wav_path = "w"
    /\ selected_tts_model = "XTTS"
    /\ ~optimize_mp3

\* C12: KokoroTTSApp: the file written by save_settings, loaded by
\* load_settings at the next start in the same environment, gives back the
\* voice, speed, output format, output path, text input, console visibility
\* and log level filter that the program had when it saved.
C12_KokoroRoundTrip ==
    (kokoro.has_saved /\ kokoro.settings_file.kind = "ok") =>
        KokoroLoaded(kokoro.settings_file, kokoro.has_ffmpeg) = kokoro.saved

\* C13: PDFConverterApp: while the model is not loaded, the voice (VCTK) or
\* the voice file (XTTS) is not chosen, or the destination folder is missing,
\* no step starts a run: is_running does not become true and no worker
\* thread is created.
MissingModel == ~tts_engine.model
MissingVoice ==
    \/ selected_tts_model = "VCTK" /\ selected_voice = ""
    \/ selected_tts_model = "XTTS" /\ speaker_wav_path = ""
MissingDestination == destination_folder \in {"", "gone"}

C13_ConfigurationErrorsRejected ==
    [][(MissingModel \/ MissingVoice \/ MissingDestination) =>
          /\ ~(~is_running /\ is_running')
          /\ \A w \in Workers : threads[w] = NoThread => threads'[w] = NoThread]_vars

\* C14: load_settings never aborts the start of the program, whatever the
\* settings file holds (missing, not JSON, JSON of another shape, invalid
\* field values): the window always comes up, with defaults where needed.
C14_StartupNeverAborts == window # "crashed" /\ kokoro.window # "crashed"

\* C15: a failure to write the settings file is caught inside save_settings:
\* on_closing of PDFConverterApp goes on to destroy the window when the save
\* failed, and KokoroTTSApp stays up after a failed save.
C15_CloseSurvivesSaveFailure ==
    /\ last_close = "save failed" => window = "closed"
    /\ kokoro.window # "crashed"

\* C16: the settings are saved when the program is closed: once the window
\* of KokoroTTSApp is closed, the file this process last wrote holds the
\* option values the fields had at closing, a change made less than the
\* debounce delay before closing included.
C16_SavedAtClose ==
    (kokoro.window = "closed" /\ kokoro.has_saved) =>
        kokoro.settings_file = KokoroSaved(kokoro)

\* C17: PDFConverterApp: the model-loading thread and the queue worker thread
\* never run at the same time: no load starts during a run, and no run
\* starts during a load.
C17_LoadAndRunExclusive ==
    ~(loader = "loading" /\ \E w \in Workers : threads[w] # NoThread)

\* C18: PDFConverterApp: after a load that failed, the Start button stays
\* disabled until a later load succeeds, whatever happens in between (a Stop
\* or the end of a run that was active when the failing load started).
FailedLoadInstalled == loader = "idle" /\ tts_engine # NoEngine /\ ~tts_engine.model

C18_StartDisabledAfterFailedLoad == FailedLoadInstalled => start_button = "disabled"

\* C19: PDFConverterApp: a worker that Pause keeps waiting starts no job
\* until Resume is pressed: it does not go on to mark a job Processing while
\* it is held.
C19_PausedStartsNoJob ==
    [][\A w \in Workers :
          (w \in pause_held /\ threads[w].pc = "pause") => threads'[w].pc # "mark"]_vars

\* Job j is being worked on: a live thread is between line 415 and the end
\* of the try block with it.
InFlight(j) ==
    \E w \in Workers : threads[w].item = j /\ threads[w].pc \in {"extract", "synth", "encode"}

\* The jobs of the queues that StopSpec starts from.
ControlJobs ==
    UNION {{sf.pdf_queue[k].id : k \in 1..Len(sf.pdf_queue)} : sf \in StopSettings}

\* C20: Stop does not interrupt the job in flight: a job in Processing is
\* always held by a live worker, leaves Processing only for Complete or Error,
\* and a job that was in Processing at Stop does end Complete or Error.
C20_StopLetsJobFinish ==
    /\ [](\A j \in JobIds : jobs[j].status = "Processing" => InFlight(j))
    /\ [][\A j \in JobIds :
             (jobs[j].status = "Processing" /\ jobs'[j].status # "Processing")
                => jobs'[j].status \in {"Complete", "Error"}]_vars
    /\ \A j \in ControlJobs :
          (j \in stop_inflight) ~> (jobs[j].status \in {"Complete", "Error"})

\* C20 witness: Stop was pressed with a job in flight, no Start since, and
\* that job is Complete while the run state is Idle.
C20_Witness ==
    /\ ~is_running
    /\ \E j \in stop_inflight : jobs[j].status = "Complete"

\* C21: the return to Idle that a run schedules when its worker has visited
\* the whole queue never stops a later-started run: when the scheduled
\* stop_conversion ends a run, the thread of the last accepted Start has
\* ended.
C21_AutoStopOwnRun ==
    [][(after_stop' < after_stop /\ is_running /\ ~is_running') => latest_thread = 0]_vars

\* The queue index of job j, 0 when it is not queued.
IndexOf(j) ==
    IF \E k \in 1..Len(pdf_queue) : pdf_queue[k] = j
    THEN CHOOSE k \in 1..Len(pdf_queue) : pdf_queue[k] = j
    ELSE 0

\* Job j was finished by the current run, or was Complete before it.
DoneThisRun(j) ==
    \/ jobs[j].status = "Complete"
    \/ jobs[j].status = "Error" /\ j \in raised

\* C22: within one run on a queue that is not changed, the jobs are worked
\* on by decreasing index: when a job enters Processing every job behind it
\* in the queue has reached Complete or Error in this run, and no job before
\* it has been touched by this run.
C22_DecreasingIndexOrder ==
    [][\A j \in Queued :
          (jobs[j].status # "Processing" /\ jobs'[j].status = "Processing") =>
              \A k \in Queued :
                  /\ IndexOf(k) > IndexOf(j) => DoneThisRun(k)
                  /\ IndexOf(k) < IndexOf(j) =>
                        (k \notin raised /\ jobs[k].status # "Processing")]_vars

\* C22 witness: the first of three jobs is in Processing after the third
\* ended Complete and the second in Error in this run.
C22_Witness ==
    /\ Len(pdf_queue) = 3
    /\ jobs[pdf_queue[1]].status = "Processing"
    /\ jobs[pdf_queue[2]].status = "Error"
    /\ pdf_queue[2] \in raised
    /\ jobs[pdf_queue[3]].status = "Complete"

\* C23: nothing is retried: within one run no job enters Processing a second
\* time; a job whose iteration raised in this run is not taken up again,
\* also when the user reorders the queue meanwhile.
C23_NoRetryWithinRun ==
    [][\A j \in JobIds :
          (jobs[j].status # "Processing" /\ jobs'[j].status = "Processing")
              => j \notin raised]_vars

\* C26: a run never loses its worker: while is_running is true a worker
\* thread is alive or the stop_conversion it scheduled is waiting, whatever
\* the user does to the queue during the run; the worker's read of
\* pdf_queue[i] at line 410 is always inside the queue.
C26_RunKeepsItsWorker ==
    is_running =>
        \/ after_stop > 0
        \/ \E w \in Workers : threads[w] # NoThread

\* C24: debounced_save coalesces changes: the event loop never holds more
\* than one save_settings callback, and once the callback of the last change
\* has run and written the file, no callback is left and the file holds the
\* values the fields have.
C24_DebounceCoalesces ==
    /\ kokoro.timers <= 1
    /\ kokoro.save_timer <=> (kokoro.timers = 1)
    /\ (kokoro.window = "open" /\ kokoro.has_saved /\ kokoro.timers = 0) =>
          kokoro.settings_file = KokoroSaved(kokoro)

\* C24 witness: a save has run after several changes (voice, speed, format
\* and text all differ from the defaults), nothing is scheduled and the file
\* is the current one.
C24_Witness ==
    /\ kokoro.window = "open"
    /\ kokoro.has_saved
    /\ kokoro.timers = 0
    /\ kokoro.selected_voice # KokoroDefaults.selected_voice
    /\ kokoro.speed # KokoroDefaults.speed
    /\ kokoro.output_format = "mp3"
    /\ kokoro.text_input = <<"hi">>
    /\ kokoro.settings_file = KokoroSaved(kokoro)

\* C25: at most one job has status Processing, and a job is in Processing
\* only while a worker thread is executing its step; also after Stop and
\* Start, and after the program was closed during a run and started again
\* from the saved queue.
C25_ProcessingHasWorker ==
    window = "open" =>
        /\ Cardinality({j \in JobIds : jobs[j].status = "Processing"}) <= 1
        /\ \A j \in JobIds : jobs[j].status = "Processing" => InFlight(j)

\* C27: is_paused implies is_running, and the Pause button is enabled
\* exactly while is_running is true: Start, Stop and the end of the queue
\* all leave is_paused false.
C27_PausedOnlyWhileRunning ==
    /\ is_paused => is_running
    /\ pause_button = "normal" <=> is_running

\* C27 witness: Stop was pressed while a worker was held by Pause; the run
\* state is Idle.
C27_Witness ==
    /\ ~is_running
    /\ ~is_paused
    /\ pause_held # {}
    /\ pause_button = "disabled"

\* ------------------------------------------------------------ C28
LiveGen == {w \in GenThreads : gen.threads[w] # NoGenThread}

Released ==
    /\ ~gen.is_processing
    /\ gen.generate_button = "normal"
    /\ gen.stop_button = "disabled"

\* C29: every started generation ends, whether it succeeds, raises or is
\* stopped: its worker is followed by a state without a worker in which
\* is_processing is False, Generate is enabled and Stop is disabled, and the
\* controls are in that state whenever no worker and no callback is left.
C29_GenerationEndsReleased ==
    /\ [](((LiveGen = {}) /\ (gen.after = <<>>)) => Released)
    /\ ((LiveGen # {}) ~> ((LiveGen = {}) /\ Released))

\* A generation that raised has ended and the controls are released.
C29_Witness ==
    /\ gen.last.error = "other"
    /\ gen.last.segs > 0
    /\ LiveGen = {}
    /\ gen.after = <<>>
    /\ Released

\* ------------------------------------------------------------ C30
\* The files of the output folder that hold the output of generation t.
OutputFiles(t) == {f \in gen.folder : f.name = t.output}

C30_WitnessNone ==
    /\ LiveGen = {}
    /\ gen.last.observed
    /\ gen.last.segs = 0
    /\ gen.last.error = "No audio generated"

====
